---- MODULE Spec2Model ----
(***************************************************************************)
(* A model of configure.py, the build-graph generator of openinput.       *)
(*                                                                         *)
(* One behaviour is a sequence of invocations of the script with the same *)
(* command line, descriptor catalog, host platform and revision-control   *)
(* state.  An invocation constructs a BuildSystemBuilder (target lookup,  *)
(* toolchain resolution and validation), prints the summary and writes    *)
(* build.ninja.  The executables on the search path may change between    *)
(* invocations.                                                            *)
(*                                                                         *)
(* Text is a sequence of symbols: the characters the code inspects ("."   *)
(* and "-" and "/") are symbols of their own, a run of other characters   *)
(* is one symbol.                                                          *)
(***************************************************************************)
EXTENDS Naturals, Sequences, FiniteSets, TLC

VARIABLES
    cli,              \* the parsed command line: [target, cross_toolchain]
    platform,         \* sys.platform
    git,              \* what the git executable answers on this host
    descr,            \* the data of the descriptor classes of the catalog
    path,             \* the executables shutil.which resolves
    pc,               \* where the invocation stands
    exit_code,        \* the process's exit code, once pc = "exited"
    error,            \* the message _error printed, "" if none
    target,           \* self._target
    cross_toolchain,  \* self._cross_toolchain
    warned,           \* whether warnings.warn was called
    version_cache,    \* the cached value of self.version, None before its first read
    summary,          \* what print_summary printed
    opened,           \* whether this invocation opened build.ninja for writing
    file              \* the content of build.ninja

vars == <<cli, platform, git, descr, path, pc, exit_code, error, target,
          cross_toolchain, warned, version_cache, summary, opened, file>>

----------------------------------------------------------------------------
(* Bounds and input sets *)

\* the longest source list a descriptor declares
MaxSources == 3

\* Python's None, where a string may stand
None == <<"<None>">>

\* a build.ninja that does not exist
Absent == <<[kind |-> "absent", name |-> "", value |-> <<>>,
             outputs |-> <<>>, inputs |-> <<>>]>>

linux_uhid == <<"linux", "-", "uhid">>

stm32f1_generic == <<"stm32f1", "-", "generic">>

arm_none_eabi == <<"arm", "-", "none", "-", "eabi">>

SourceNames == { <<"a", ".", "c">>, <<"a", ".", "s">>, <<"b", ".", "x", ".", "c">> }

SourceLists == UNION { [1..n -> SourceNames] : n \in 0..MaxSources }

BinExtensions == { <<>>, <<"elf">>, <<"bin">> }

TargetArgs == { <<>>, linux_uhid, stm32f1_generic, <<"nosuch">> }

CrossArgs == { None, <<>>, arm_none_eabi, arm_none_eabi \o <<"-">> }

Platforms == { "linux", "darwin" }

\* git not installed; installed, outside a repository; a clean repository
\* with a tag reaching HEAD; a dirty repository with no tag
GitStates ==
    { [installed |-> FALSE, repo |-> FALSE, tagged |-> FALSE, dirty |-> FALSE],
      [installed |-> TRUE,  repo |-> FALSE, tagged |-> FALSE, dirty |-> FALSE],
      [installed |-> TRUE,  repo |-> TRUE,  tagged |-> TRUE,  dirty |-> FALSE],
      [installed |-> TRUE,  repo |-> TRUE,  tagged |-> FALSE, dirty |-> TRUE] }

\* the tools the emitted graph names
GraphTools == { <<"gcc">>, <<"ar">>, <<"objcopy">>, <<"size">> }

----------------------------------------------------------------------------
(* Text helpers *)

\* what Python's `not x` and filter(None, ...) drop
Falsy(x) == x = None \/ x = <<>>

RECURSIVE join(_, _)
\* sep.join(filter(None, parts))
join(sep, parts) ==
    IF parts = <<>> THEN <<>>
    ELSE LET h == Head(parts)
             t == join(sep, Tail(parts))
         IN  IF Falsy(h) THEN t
             ELSE IF t = <<>> THEN h
             ELSE h \o sep \o t

\* s.replace(old, new) for one-character old and new
replace(s, old, new) ==
    IF s = <<>> THEN <<>>
    ELSE [i \in 1..Len(s) |-> IF s[i] = old THEN new ELSE s[i]]

\* s.endswith(c)
endswith(s, c) == Len(s) > 0 /\ s[Len(s)] = c

\* os.path.join(a, b) for a relative b
path_join(a, b) == a \o <<"/">> \o b

----------------------------------------------------------------------------
(* The descriptor catalog (package build_targets) *)

\* cls.__subclasses__(), in declaration order
Subclasses(cls) ==
    CASE cls = "BuildConfiguration" -> <<"LinuxUHIDTarget", "STM32Target">>
      [] cls = "STM32Target"        -> <<"STM32F1GenericTarget">>
      [] OTHER                      -> <<>>

\* cls.name; a family base class declares none
ClassName(cls) ==
    CASE cls = "LinuxUHIDTarget"      -> linux_uhid
      [] cls = "STM32F1GenericTarget" -> stm32f1_generic
      [] OTHER                        -> None

\* cls.cross_toolchain, the descriptor's default prefix
ClassToolchain(cls) ==
    IF cls = "LinuxUHIDTarget" THEN <<>> ELSE arm_none_eabi

\* cls(**kwargs): the descriptor instance write_ninja reads
Instantiate(cls) ==
    [ name            |-> ClassName(cls),
      cross_toolchain |-> ClassToolchain(cls),
      source          |-> descr.source,
      bin_extension   |-> descr.bin_extension,
      generate_bin    |-> descr.generate_bin,
      generate_hex    |-> descr.generate_hex,
      c_flags         |-> << <<"-Wall">>, <<"-Os">> >>,
      ld_flags        |-> <<>> ]

NoTarget ==
    [ name |-> None, cross_toolchain |-> None, source |-> <<>>,
      bin_extension |-> <<>>, generate_bin |-> FALSE, generate_hex |-> FALSE,
      c_flags |-> <<>>, ld_flags |-> <<>> ]

----------------------------------------------------------------------------
(* Target registry *)

\* a dict is a sequence of <<key, value>> in insertion order
HasKey(d, k) == \E i \in DOMAIN d : d[i][1] = k

Lookup(d, k) == d[CHOOSE i \in DOMAIN d : d[i][1] = k][2]

\* d[k] = v
Put(d, k, v) ==
    IF HasKey(d, k)
    THEN [i \in DOMAIN d |-> IF d[i][1] = k THEN <<k, v>> ELSE d[i]]
    ELSE Append(d, <<k, v>>)

RECURSIVE add(_, _)
RECURSIVE add_each(_, _)
\* the body of the loop of _add, over the classes still to visit
add_each(classes, targets_dict) ==
    IF classes = <<>> THEN targets_dict
    ELSE LET cls == Head(classes)
             d1  == IF ~Falsy(ClassName(cls))
                    THEN Put(targets_dict, ClassName(cls), cls)
                    ELSE targets_dict
         IN  add_each(Tail(classes), add(cls, d1))

\* _add(parent_cls)
add(parent_cls, targets_dict) == add_each(Subclasses(parent_cls), targets_dict)

get_targets == add("BuildConfiguration", <<>>)

\* list(self.get_targets().keys())
targets_list == [i \in DOMAIN get_targets |-> get_targets[i][1]]

\* what the user may answer to 'Select target': nothing, or an index of the list
Selections == {0} \cup {i + 1 : i \in DOMAIN targets_list}

\* _ask_target, for the answer that ends its loop (0 stands for the empty answer)
ask_target(select) ==
    IF select = 0 THEN linux_uhid ELSE targets_list[select - 1]

----------------------------------------------------------------------------
(* Toolchain *)

REQUIRED_TOOLS == << <<"gcc">>, <<"objcopy">>, <<"size">> >>

\* '-'.join(filter(None, [prefix, x])): the effective name of a tool
tool(prefix, x) == join(<<"-">>, <<prefix, x>>)

\* shutil.which(name) is not None
which(name) == name \in path

\* a resolution that falls back to the default only for a missing argument
effective_prefix_if_none(cross_arg, default) ==
    IF cross_arg = None THEN default ELSE cross_arg

\* the prefix __init__ stores in self._cross_toolchain
effective_prefix(cross_arg, default) ==
    IF Falsy(cross_arg) THEN default ELSE cross_arg

RECURSIVE first_missing(_, _)
\* the loop of _validate_toolchain: the first name that does not resolve, or None
first_missing(prefix, tools) ==
    IF tools = <<>> THEN None
    ELSE IF ~which(tool(prefix, Head(tools))) THEN tool(prefix, Head(tools))
    ELSE first_missing(prefix, Tail(tools))

\* an _error whose default code is 0
error_exit_zero(msg) == [exit_code |-> 0, error |-> msg]

\* _error(msg, code = 1): print the message and exit
error_exit(msg) == [exit_code |-> 1, error |-> msg]

----------------------------------------------------------------------------
(* Version probe *)

\* a version that does not catch FileNotFoundError
version_uncaught(g) ==
    IF ~g.installed THEN [exc |-> "FileNotFoundError", val |-> None]
    ELSE IF ~g.repo THEN [exc |-> "CalledProcessError", val |-> None]
    ELSE IF g.tagged THEN [exc |-> "", val |-> <<"1", ".", "2", ".", "3">>]
    ELSE [exc |-> "", val |-> <<"r">> \o <<"5">> \o <<".">> \o <<"abc123">>]

\* the cached property version: the string it returns, or the exception
\* subprocess.check_output raises through it
version(g) ==
    IF ~g.installed THEN [exc |-> "", val |-> <<"UNKNOWN">>]
    ELSE IF ~g.repo THEN [exc |-> "CalledProcessError", val |-> None]
    ELSE IF g.tagged THEN [exc |-> "", val |-> <<"1", ".", "2", ".", "3">>]
    ELSE [exc |-> "", val |-> <<"r">> \o <<"5">> \o <<".">> \o <<"abc123">>]

\* _is_git_dirty(): "True", "False" or "None", or the exception raised
is_git_dirty(g) ==
    IF ~g.installed THEN [exc |-> "", val |-> "None"]
    ELSE IF ~g.repo THEN [exc |-> "CalledProcessError", val |-> "None"]
    ELSE [exc |-> "", val |-> IF g.dirty THEN "True" ELSE "False"]

\* Python's truth value of what write_ninja and print_summary test
Truthy(v) == v \notin {"None", "False"}

----------------------------------------------------------------------------
(* Build graph emitter: the calls made on ninja_syntax.Writer, in order *)

Line(kind, name, value, outputs, inputs) ==
    [kind |-> kind, name |-> name, value |-> value,
     outputs |-> outputs, inputs |-> inputs]

comment(text) == Line("comment", "", text, <<>>, <<>>)

newline == Line("newline", "", <<>>, <<>>, <<>>)

variable(key, value) == Line("variable", key, value, <<>>, <<>>)

rule(name, command) == Line("rule", name, command, <<>>, <<>>)

build(outputs, rule_name, inputs) == Line("build", rule_name, <<>>, outputs, inputs)

\* os.path.dirname(os.path.realpath(__file__))
script_dir == <<"/", "openinput">>

\* os.getcwd(): the script is run from its own directory
cwd == script_dir

\* self._root
root == IF script_dir = cwd THEN <<".">> ELSE script_dir

\* self._builddir, the default of --builddir
builddir == <<"build">>

src(f) == path_join(path_join(<<"$root">>, <<"src">>), f)

built(f) == path_join(<<"$builddir">>, f)

RECURSIVE remove_ext(_)
\* file.split('.')[0]
remove_ext(f) ==
    IF f = <<>> \/ Head(f) = "." THEN <<>>
    ELSE <<Head(f)>> \o remove_ext(Tail(f))

\* the edge cc(file) adds
cc(f) == build(<<built(remove_ext(f) \o <<".", "o">>)>>, "cc", <<src(f)>>)

extension(f, ext) == built(path_join(<<"out">>, join(<<".">>, <<f, ext>>)))

binary(t, f) == extension(f, t.bin_extension)

\* a loop over self._target.source itself, duplicates included
IterationOrders_list(source) == {source}

\* the orders in which `for file in set(self._target.source)` may visit the
\* distinct sources: the order of a set of strings depends on the hash seed
\* of the process
IterationOrders(source) ==
    LET S == {source[i] : i \in DOMAIN source}
    IN  {o \in [1..Cardinality(S) -> S] :
            \A i, j \in 1..Cardinality(S) : i # j => o[i] # o[j]}

\* out_name; the code tests the bound method self._is_git_dirty, which it
\* does not call
out_name(t, ver) ==
    join(<<"-">>, << <<"openinput">>,
                     t.name,
                     replace(ver, ".", "-"),
                     IF Truthy("bound method") THEN <<"dirty">> ELSE None >>)

\* the rule declarations
rules(t) ==
    << rule("cc", <<"$cc -MMD -MT $out -MF $out.d $c_flags -c $in -o $out">>), newline,
       rule("ar", <<"rm -f $out && $ar crs $out $in">>), newline,
       rule("link", <<"$cc $ld_flags -o $out $in $libs">>), newline >>
    \o (IF t.generate_bin
        THEN <<rule("bin", <<"$objcopy -O binary $in $out">>)>> ELSE <<>>)
    \o (IF t.generate_hex
        THEN <<rule("hex", <<"$objcopy -O ihex $in $out">>)>> ELSE <<>>)

\* the edges creating .bin and .hex
images(t, name, out) ==
    (IF t.generate_bin
     THEN <<build(<<extension(name, <<"bin">>)>>, "bin", <<out>>), newline>>
     ELSE <<>>)
    \o (IF t.generate_bin
        THEN <<build(<<extension(name, <<"hex">>)>>, "hex", <<out>>), newline>>
        ELSE <<>>)

\* everything write_ninja writes, the sources visited in `order`
document(t, prefix, ver, order) ==
    LET edges == [i \in DOMAIN order |-> cc(order[i])]
        objs  == [i \in DOMAIN order |-> edges[i].outputs[1]]
        name  == out_name(t, ver)
        out   == binary(t, name)
    IN  << comment(<<"build file automatically generated by configure.py, do not edit manually!">>),
           newline,
           variable("ninja_required_version", <<"1", ".", "3">>),
           newline,
           variable("root", root),
           variable("builddir", builddir),
           variable("cc", tool(prefix, <<"gcc">>)),
           variable("ar", tool(prefix, <<"ar">>)),
           variable("objcopy", tool(prefix, <<"objcopy">>)),
           variable("size", tool(prefix, <<"size">>)),
           variable("c_flags", join(<<" ">>, t.c_flags)),
           variable("ld_flags", join(<<" ">>, t.ld_flags)),
           newline >>
        \o rules(t)
        \o edges \o <<newline>>
        \o <<build(<<out>>, "link", objs), newline>>
        \o images(t, name, out)

----------------------------------------------------------------------------
(* The script *)

\* the prefixes of the toolchains installed on the host
Installed == { <<>>, arm_none_eabi }

\* every name these toolchains may put on the search path
Executables == {tool(p, t) : p \in Installed, t \in GraphTools}

\* the search paths considered: every toolchain complete, or each lacking
\* the same one tool
SearchPaths ==
    {Executables} \cup
    {Executables \ {tool(p, t) : p \in Installed} :
        t \in GraphTools}

\* BuildSystemBuilder.__init__, the user answering `select` if asked: the
\* fields it sets and, when it ends the process, the exit
BuildSystemBuilder(select) ==
    LET t == IF Falsy(cli.target) THEN ask_target(select) ELSE cli.target
        failed(msg, inst, prefix, w) ==
            [ok |-> FALSE, exit |-> error_exit(msg), target |-> inst,
             cross_toolchain |-> prefix, warned |-> w]
    IN  IF t = linux_uhid /\ platform # "linux"
        THEN failed("linux-uhid target is only available on Linux", NoTarget, None, FALSE)
        ELSE IF ~HasKey(get_targets, t)
        THEN failed("Target not found", NoTarget, None, FALSE)
        ELSE LET inst   == Instantiate(Lookup(get_targets, t))
                 prefix == effective_prefix(cli.cross_toolchain, inst.cross_toolchain)
                 w      == ~Falsy(prefix) /\ endswith(prefix, "-")
             IN  IF first_missing(prefix, REQUIRED_TOOLS) # None
                 THEN failed("Invalid toolchain", inst, prefix, w)
                 ELSE [ok |-> TRUE, exit |-> [exit_code |-> 0, error |-> ""],
                       target |-> inst, cross_toolchain |-> prefix, warned |-> w]

NoSummary == [version |-> None, dirty |-> FALSE, target |-> None, toolchain |-> None]

\* the descriptor data the catalog may hold
Descriptors ==
    [source : SourceLists, bin_extension : BinExtensions,
     generate_bin : BOOLEAN, generate_hex : BOOLEAN]

\* one descriptor, used while the host and the command line vary
TypicalDescriptor ==
    [source |-> << <<"a", ".", "c">>, <<"b", ".", "x", ".", "c">> >>,
     bin_extension |-> <<>>, generate_bin |-> TRUE, generate_hex |-> TRUE]

\* the runs considered: every command line on every host for the typical
\* descriptor, and every descriptor for a native and a cross target on a
\* Linux host with a complete search path and a clean tagged repository
Init ==
    /\ \/ /\ cli \in [target : TargetArgs, cross_toolchain : CrossArgs]
          /\ platform \in Platforms
          /\ git \in GitStates
          /\ path \in SearchPaths
          /\ descr = TypicalDescriptor
       \/ /\ cli \in [target : {linux_uhid, stm32f1_generic}, cross_toolchain : {None}]
          /\ platform = "linux"
          /\ git = [installed |-> TRUE, repo |-> TRUE, tagged |-> TRUE, dirty |-> FALSE]
          /\ path = Executables
          /\ descr \in Descriptors
    /\ pc = "start"
    /\ exit_code = 0
    /\ error = ""
    /\ target = NoTarget
    /\ cross_toolchain = None
    /\ warned = FALSE
    /\ version_cache = None
    /\ summary = NoSummary
    /\ opened = FALSE
    /\ file = Absent

\* builder = BuildSystemBuilder(sys.argv[1:], **vars(args))
Construct ==
    /\ pc = "start"
    /\ \E select \in Selections :
        LET r == BuildSystemBuilder(select)
        IN  /\ target' = r.target
            /\ cross_toolchain' = r.cross_toolchain
            /\ warned' = r.warned
            /\ pc' = IF r.ok THEN "constructed" ELSE "exited"
            /\ exit_code' = r.exit.exit_code
            /\ error' = r.exit.error
    /\ UNCHANGED <<cli, platform, git, descr, path, version_cache, summary,
                   opened, file>>

\* builder.print_summary()
PrintSummary ==
    /\ pc = "constructed"
    /\ LET v == IF version_cache # None THEN [exc |-> "", val |-> version_cache]
                ELSE version(git)
           d == is_git_dirty(git)
           raised == IF v.exc # "" THEN v.exc ELSE d.exc
       IN  /\ version_cache' = IF v.exc = "" THEN v.val ELSE version_cache
           /\ IF raised # ""
              THEN /\ pc' = "exited"
                   /\ exit_code' = error_exit(raised).exit_code
                   /\ error' = error_exit(raised).error
                   /\ summary' = summary
              ELSE /\ pc' = "summarised"
                   /\ summary' = [version |-> v.val,
                                  dirty |-> Truthy(d.val),
                                  target |-> target.name,
                                  toolchain |-> IF Falsy(cross_toolchain)
                                                THEN <<"native">>
                                                ELSE cross_toolchain]
                   /\ UNCHANGED <<exit_code, error>>
    /\ UNCHANGED <<cli, platform, git, descr, path, target, cross_toolchain,
                   warned, opened, file>>

\* builder.write_ninja() and the last print of the script
WriteNinja ==
    /\ pc = "summarised"
    /\ \E have_ninja_syntax \in BOOLEAN, can_open \in BOOLEAN,
          order \in IterationOrders(target.source) :
        LET ver == IF version_cache # None THEN version_cache ELSE version(git).val
            stop == IF ~have_ninja_syntax THEN error_exit("Missing ninja_syntax!")
                    ELSE IF ~can_open THEN error_exit("OSError")
                    ELSE [exit_code |-> 0, error |-> ""]
        IN  /\ exit_code' = stop.exit_code
            /\ error' = stop.error
            /\ opened' = (have_ninja_syntax /\ can_open)
            /\ file' = IF have_ninja_syntax /\ can_open
                       THEN document(target, cross_toolchain, ver, order)
                       ELSE file
    /\ pc' = "exited"
    /\ UNCHANGED <<cli, platform, git, descr, path, target, cross_toolchain,
                   warned, version_cache, summary>>

\* the script is invoked again, with the same command line, on a search
\* path that may have changed
Rerun ==
    /\ pc = "exited"
    /\ path' \in SearchPaths
    /\ pc' = "start"
    /\ exit_code' = 0
    /\ error' = ""
    /\ target' = NoTarget
    /\ cross_toolchain' = None
    /\ warned' = FALSE
    /\ version_cache' = None
    /\ summary' = NoSummary
    /\ opened' = FALSE
    /\ UNCHANGED <<cli, platform, git, descr, file>>

Next == Construct \/ PrintSummary \/ WriteNinja \/ Rerun

Spec == Init /\ [][Next]_vars

----------------------------------------------------------------------------
(* Properties *)

\* the entries of a document that are build edges
Edges(doc) == {i \in DOMAIN doc : doc[i].kind = "build"}

\* the edges of a document that use a rule
EdgesOf(doc, rule_name) == {i \in Edges(doc) : doc[i].name = rule_name}

\* build.ninja holds a graph (this invocation's or an earlier one's)
Emitted == file # Absent

\* this invocation wrote build.ninja and ended
Written == pc = "exited" /\ exit_code = 0 /\ opened

\* the distinct sources of the descriptor
DistinctSources == {descr.source[i] : i \in DOMAIN descr.source}

\* the messages of the configuration errors
ConfigErrors ==
    {"Target not found", "linux-uhid target is only available on Linux",
     "Invalid toolchain"}

\* C1: the graph holds an edge making the .hex image from the linked output
\* exactly if generate_hex is set, and an edge making the .bin image exactly
\* if generate_bin is set.
C1_ImageEdgesFollowFlags ==
    Emitted =>
        LET link == file[CHOOSE i \in Edges(file) : file[i].name = "link"].outputs
            has(r) == \E i \in EdgesOf(file, r) : file[i].inputs = link
        IN  /\ has("hex") <=> descr.generate_hex
            /\ has("bin") <=> descr.generate_bin

\* C2: the rule of every build edge is declared earlier in the document.
C2_RulesDeclaredBeforeUse ==
    Emitted =>
        \A i \in Edges(file) :
            \E j \in 1..(i - 1) : file[j].kind = "rule" /\ file[j].name = file[i].name

\* the base name the claim C3 describes, for a result of the dirty probe
ExpectedOutName(name, ver, dirty) ==
    join(<<"-">>, << <<"openinput">>, name, replace(ver, ".", "-"),
                     IF dirty = "True" THEN <<"dirty">> ELSE None >>)

\* C3: the linked output is named openinput-<target>-<version with '-' for
\* '.'>, followed by -dirty only if the dirty probe answers true.
C3_OutNameDirtyOnlyIfDirty ==
    Written =>
        \A i \in EdgesOf(file, "link") :
            file[i].outputs =
                <<binary(target, ExpectedOutName(target.name, version_cache,
                                                 is_git_dirty(git).val))>>

\* C4: no two build edges of a document declare the same output.
C4_OutputsUnique ==
    Emitted =>
        \A i, j \in Edges(file) :
            i # j => \A a \in DOMAIN file[i].outputs, b \in DOMAIN file[j].outputs :
                        file[i].outputs[a] # file[j].outputs[b]

\* C5: when a graph is written, each of the four tool paths of its
\* variables (cc, ar, objcopy, size) resolves on the search path.
C5_EmittedToolsResolve ==
    Written =>
        \A i \in DOMAIN file :
            (file[i].kind = "variable" /\ file[i].name \in {"cc", "ar", "objcopy", "size"})
                => which(file[i].value)

\* C6: a run that ends in a configuration error exits non-zero and has not
\* opened build.ninja.
C6_ConfigErrorLeavesFile ==
    (pc = "exited" /\ error \in ConfigErrors) => (exit_code # 0 /\ ~opened)

\* witness of C6: a missing tool ends a run while a graph of an earlier run
\* is in place
C6_Witness ==
    pc = "exited" /\ error = "Invalid toolchain" /\ Emitted /\ ~opened

\* C7: a run that rewrites the graph of an earlier run with the same inputs
\* writes the same document.
C7_RewriteIsIdentical ==
    [][(pc = "summarised" /\ pc' = "exited" /\ exit_code' = 0 /\ opened' /\ Emitted)
        => file' = file]_vars

\* C8: the graph holds one cc edge per distinct source: as many cc edges as
\* distinct sources, and each distinct source the input of exactly one.
C8_OneCompileEdgePerSource ==
    Emitted =>
        /\ Cardinality(EdgesOf(file, "cc")) = Cardinality(DistinctSources)
        /\ \A f \in DistinctSources :
              Cardinality({i \in EdgesOf(file, "cc") : file[i].inputs = <<src(f)>>}) = 1

\* witness of C8: a graph for a source list that repeats an entry and has
\* two distinct sources
C8_Witness ==
    /\ Emitted
    /\ Len(descr.source) > Cardinality(DistinctSources)
    /\ Cardinality(DistinctSources) >= 2

\* C9: without a git executable the version is UNKNOWN and the dirty probe
\* answers None, neither raises, and the run ends only as a run with git
\* may: it prints the summary and, unless the configuration, ninja_syntax
\* or the destination stops it, writes the graph.
C9_NoGitIsNotFatal ==
    ~git.installed =>
        /\ version(git) = [exc |-> "", val |-> <<"UNKNOWN">>]
        /\ is_git_dirty(git) = [exc |-> "", val |-> "None"]
        /\ error \in ConfigErrors \cup {"", "Missing ninja_syntax!", "OSError"}
        /\ (pc = "exited" /\ error \notin ConfigErrors) =>
              (summary.version = <<"UNKNOWN">> /\ ~summary.dirty)
        /\ (pc = "exited" /\ error = "") => (Written /\ Emitted)

\* witness of C9: a run without git that printed the summary and wrote the
\* graph
C9_Witness ==
    /\ ~git.installed
    /\ Written
    /\ summary.version = <<"UNKNOWN">>
    /\ Emitted

\* C10 as stated: the effective prefix is the override whenever the caller
\* gave one, whatever its value, and the descriptor's default otherwise.
C10_OverrideAlwaysWins ==
    target # NoTarget =>
        cross_toolchain = IF cli.cross_toolchain # None
                          THEN cli.cross_toolchain
                          ELSE target.cross_toolchain

\* C10 amended: the effective prefix is the override whenever the caller
\* gave a non-empty one, and the descriptor's default when the caller gave
\* none or the empty string; it is the prefix the validation resolved the
\* required tools under and the prefix of the tool paths written.
C10_NonEmptyOverrideWins ==
    target # NoTarget =>
        /\ cross_toolchain = IF cli.cross_toolchain \notin {None, <<>>}
                             THEN cli.cross_toolchain
                             ELSE target.cross_toolchain
        /\ error # "Invalid toolchain" =>
              \A i \in DOMAIN REQUIRED_TOOLS :
                  which(tool(cross_toolchain, REQUIRED_TOOLS[i]))
        /\ Written =>
              \A i \in DOMAIN file :
                  (file[i].kind = "variable" /\ file[i].name = "cc")
                      => file[i].value = tool(cross_toolchain, <<"gcc">>)

\* witness of C10: an empty override on a target whose default prefix is
\* not empty, the graph written
C10_Witness ==
    /\ cli.cross_toolchain = <<>>
    /\ target # NoTarget
    /\ target.cross_toolchain # <<>>
    /\ Written

====
